---- MODULE Spec2Model ----
(***************************************************************************)
(* A model of the #[machine] attribute macro of carol_guest_derive        *)
(* (crates/carol_guest_derive/src/machine.rs) and of the code it          *)
(* generates: the Activate enum, the argument structs, Machine::activate  *)
(* and Machine::handle_http.                                               *)
(*                                                                         *)
(* The macro walks the methods of an impl block and builds the enum       *)
(* variants, the arms of activate's match and the arms of handle_http's   *)
(* match.  The generated code is then run by the host: a direct call of   *)
(* activate(params, input), or handle_http(request), which re-enters      *)
(* activate through the host's self_activate.                              *)
(***************************************************************************)
EXTENDS Integers, Sequences, FiniteSets, TLC

(***************************************************************************)
(* Bounds of the model.                                                    *)
(***************************************************************************)
\* the longest impl block: the number of methods in input.items
MaxItems == 2
\* integers (i64 arguments, the machine's counter) range over -1..MaxVal
MaxVal == 1

Vals == -1..MaxVal
MachineStates == 0..MaxVal

Range(s) == {s[i] : i \in DOMAIN s}

(***************************************************************************)
(* The input of the macro: the methods of the impl block.  A method is    *)
(*   name      its identifier                                              *)
(*   activate  whether it carries #[activate]                              *)
(*   first     the shape of its first parameter                            *)
(*   second    the shape of its second parameter                           *)
(*   params    the identifiers of the parameters after the capability      *)
(*   plain     whether all of those are plain `ident: Type` parameters     *)
(*   attr      the attribute those parameters carry: "none", "with_serde"  *)
(*             or another one ("other")                                    *)
(*   ret       whether the signature declares a return type                *)
(*   http      whether #[activate(http(...))] was given, with its method   *)
(*             and, when `explicit`, its path literal                      *)
(* A path is the sequence of its pieces: "/get" is <<"/", "get">>.         *)
(***************************************************************************)
NoHttp == [on |-> FALSE, method |-> "Get", explicit |-> FALSE, path |-> <<>>]
HttpAt(m, p) == [on |-> TRUE, method |-> m, explicit |-> TRUE, path |-> p]
HttpDerived(m) == [on |-> TRUE, method |-> m, explicit |-> FALSE, path |-> <<>>]

Method(n, ps, r, h) ==
    [name |-> n, activate |-> TRUE, first |-> "receiver", second |-> "cap",
     params |-> ps, plain |-> TRUE, attr |-> "none", ret |-> r, http |-> h]

\* fn get_counter(&self, _cap) -> i64            #[activate(http(GET, "/get"))]
GetCounter == [Method("get_counter", <<>>, TRUE, HttpAt("Get", <<"/", "get">>))
                  EXCEPT !.second = "_cap"]
\* fn set_counter(&self, cap, value: i64)        #[activate(http(POST, "/set"))]
SetCounter == Method("set_counter", <<"value">>, FALSE, HttpAt("Post", <<"/", "set">>))
\* fn sub(&self, cap, a: i64, b: i64) -> i64     #[activate(http(GET))]
Sub == Method("sub", <<"a", "b">>, TRUE, HttpDerived("Get"))
\* fn reset(&self, cap)                          #[activate]
Reset == Method("reset", <<>>, FALSE, NoHttp)
\* fn peek(&self, cap) -> i64                    #[activate(http(GET, "/get"))]
Peek == Method("peek", <<>>, TRUE, HttpAt("Get", <<"/", "get">>))
\* fn index(&self, cap, value: i64) -> i64       #[activate(http(POST, "/"))]
Index == Method("index", <<"value">>, TRUE, HttpAt("Post", <<"/">>))
\* fn store(&self, cap, value: i64)              #[activate(http(POST, "/get"))]
Store == Method("store", <<"value">>, FALSE, HttpAt("Post", <<"/", "get">>))

Catalog == {GetCounter, SetCounter, Sub, Reset, Peek, Index, Store}

\* methods the macro skips or rejects
\* fn new(value: i64) -> Self                    (no #[activate])
New == [Method("new", <<"value">>, TRUE, NoHttp)
           EXCEPT !.activate = FALSE, !.first = "typed", !.second = "none"]
\* fn make(cap, value: i64)                      #[activate]
Make == [Method("make", <<"value">>, FALSE, NoHttp) EXCEPT !.first = "typed"]
\* fn touch(&self, value: i64)                   #[activate(http(POST, "/set"))]
Touch == [Method("touch", <<>>, FALSE, HttpAt("Post", <<"/", "set">>))
             EXCEPT !.second = "ident"]
\* fn pair(&self, (a, b): (i64, i64))            #[activate]
Pair == [Method("pair", <<>>, FALSE, NoHttp) EXCEPT !.second = "pattern"]
\* fn split(&self, cap, (a, b): (i64, i64))      #[activate(http(GET))]
Split == [Method("split", <<>>, FALSE, HttpDerived("Get")) EXCEPT !.plain = FALSE]
\* fn tagged(&self, cap, #[serde] value: i64)    #[activate]
Tagged == [Method("tagged", <<"value">>, FALSE, NoHttp) EXCEPT !.attr = "other"]

\* fn root(&self, cap) -> i64                    #[activate(http(GET, "/"))]
Root == Method("root", <<>>, TRUE, HttpAt("Get", <<"/">>))

\* methods for the requests that probe the route table
RouteCatalog == {Root, GetCounter, SetCounter, Sub, Reset}

SchemaCatalog == {GetCounter, SetCounter, Sub, New, Make, Touch, Pair, Split, Tagged}

\* heck::AsUpperCamelCase of a method name
UpperCamelCase(name) ==
    CASE name = "get_counter" -> "GetCounter"
      [] name = "set_counter" -> "SetCounter"
      [] name = "sub"         -> "Sub"
      [] name = "reset"       -> "Reset"
      [] name = "peek"        -> "Peek"
      [] name = "index"       -> "Index"
      [] name = "store"       -> "Store"
      [] name = "new"         -> "New"
      [] name = "make"        -> "Make"
      [] name = "touch"       -> "Touch"
      [] name = "pair"        -> "Pair"
      [] name = "split"       -> "Split"
      [] name = "tagged"      -> "Tagged"
      [] name = "root"        -> "Root"
      [] OTHER                -> "Unnamed"

(***************************************************************************)
(* The methods' bodies (the user's code): the value a method returns on   *)
(* machine state s with arguments args, and the value of the decoded      *)
(* machine when the method returns (a method that writes through interior *)
(* mutability changes the decoded value it was called on).                 *)
(***************************************************************************)
Unit == [unit |-> TRUE, val |-> 0]
Value(v) == [unit |-> FALSE, val |-> v]

Invoke(name, s, args) ==
    CASE name = "get_counter" -> [ret |-> Value(s), machine |-> s]
      [] name = "set_counter" -> [ret |-> Unit, machine |-> args[1]]
      [] name = "sub"         -> [ret |-> Value(s + args[1] - args[2]), machine |-> s]
      [] name = "reset"       -> [ret |-> Unit, machine |-> 0]
      [] name = "peek"        -> [ret |-> Value(s + 1), machine |-> s]
      [] name = "index"       -> [ret |-> Value(args[1] - s), machine |-> s]
      [] name = "store"       -> [ret |-> Unit, machine |-> s + args[1]]
      [] name = "root"        -> [ret |-> Value(s), machine |-> s]
      [] OTHER                -> [ret |-> Unit, machine |-> s]

(***************************************************************************)
(* bincode, standard configuration: integers are variable-length (one     *)
(* byte below 251, else the marker 251 and two little-endian bytes),      *)
(* signed integers are zigzag-encoded first, an enum is its variant index *)
(* as a u32 followed by the variant's fields, a struct is its fields in   *)
(* order, and () is no bytes.  decode_from_slice ignores trailing bytes.  *)
(***************************************************************************)
\* a variant of ZigZag: the sign dropped
ZigZag_Abs(n) == IF n >= 0 THEN 2 * n ELSE -2 * n

ZigZag(n) == IF n >= 0 THEN 2 * n ELSE -2 * n - 1
UnZigZag(u) == IF u % 2 = 0 THEN u \div 2 ELSE -((u + 1) \div 2)

VarintEncode(u) == IF u < 251 THEN <<u>> ELSE <<251, u % 256, u \div 256>>

DecodeErr(e) == [ok |-> FALSE, val |-> 0, rest |-> <<>>, err |-> e]
DecodeOk(v, r) == [ok |-> TRUE, val |-> v, rest |-> r, err |-> "none"]

VarintDecode(bytes) ==
    IF bytes = <<>> THEN DecodeErr("UnexpectedEnd")
    ELSE IF Head(bytes) < 251 THEN DecodeOk(Head(bytes), Tail(bytes))
    ELSE IF Head(bytes) = 251
         THEN IF Len(bytes) >= 3
              THEN DecodeOk(bytes[2] + 256 * bytes[3], SubSeq(bytes, 4, Len(bytes)))
              ELSE DecodeErr("UnexpectedEnd")
    ELSE DecodeErr("InvalidIntegerType")

EncodeI64(n) == VarintEncode(ZigZag(n))

DecodeI64(bytes) ==
    LET u == VarintDecode(bytes)
    IN  IF u.ok THEN DecodeOk(UnZigZag(u.val), u.rest) ELSE u

\* the machine type (self_ty) is a struct of one i64 field
EncodeState(s) == EncodeI64(s)
DecodeState(bytes) == DecodeI64(bytes)

\* the fields of a struct, in the order of its definition
RECURSIVE EncodeFields(_, _)
EncodeFields(fields, value) ==
    IF fields = <<>> THEN <<>>
    ELSE EncodeI64(value[Head(fields)]) \o EncodeFields(Tail(fields), value)

RECURSIVE DecodeFieldSeq(_, _)
DecodeFieldSeq(n, bytes) ==
    IF n = 0 THEN [ok |-> TRUE, vals |-> <<>>, err |-> "none"]
    ELSE LET d == DecodeI64(bytes)
         IN  IF ~d.ok THEN [ok |-> FALSE, vals |-> <<>>, err |-> d.err]
             ELSE LET r == DecodeFieldSeq(n - 1, d.rest)
                  IN  IF r.ok THEN [r EXCEPT !.vals = <<d.val>> \o r.vals] ELSE r

\* the return value of a method: () or an i64
EncodeOutput(ret) == IF ret.unit THEN <<>> ELSE EncodeI64(ret.val)

(***************************************************************************)
(* The state.                                                              *)
(*   items            input.items, the methods of the impl block           *)
(*   idx              the position of machine()'s `for item` loop          *)
(*   method_structs, variants, match_arms, http_match_arms, html_doc_list  *)
(*                    machine()'s local vectors of the same names          *)
(*   output           the token stream machine() returned                  *)
(*   params           the machine's parameters, as the host keeps them     *)
(*   pc               where the host is: "idle", inside handle_http at its *)
(*                    self_activate call ("self_activate") or after it     *)
(*                    ("resume"), or holding a finished call ("done")      *)
(*   surface          the entry point the host called last                 *)
(*   request          the request handle_http was called with              *)
(*   binary_input     the bytes handle_http hands to self_activate         *)
(*   reentry          what self_activate returned, and the context it was  *)
(*                    called with                                          *)
(*   reentries        how many self_activate calls the current handle_http *)
(*                    call has made                                        *)
(*   response         what handle_http did last: a response, or an abort   *)
(*   act              the last run of activate                             *)
(*   written          a record of the past, kept by no code: the value of  *)
(*                    the last set_counter call a request completed (a     *)
(*                    sequence of one value, empty before the first), for  *)
(*                    the specification that follows the counter example   *)
(*   cli              a run of the carlo command line: the parsed command  *)
(*                    and options, where main is, the locals of the run    *)
(*                    functions and main's result                          *)
(*   effects          what that run has done outside itself so far, in     *)
(*                    order: each stage it entered and whether it succeeded *)
(***************************************************************************)
VARIABLES items, idx, method_structs, variants, match_arms, http_match_arms,
          html_doc_list, output, params, pc, surface, request, binary_input,
          reentry, reentries, response, act, written, cli, effects

macro_vars == <<items, idx, method_structs, variants, match_arms,
                http_match_arms, html_doc_list, output>>
http_vars == <<request, binary_input, reentry, reentries, response>>
guest_vars == <<items, idx, method_structs, variants, match_arms, http_match_arms,
                html_doc_list, output, params, pc, surface, request, binary_input,
                reentry, reentries, response, act, written>>
vars == <<items, idx, method_structs, variants, match_arms, http_match_arms,
          html_doc_list, output, params, pc, surface, request, binary_input,
          reentry, reentries, response, act, written, cli, effects>>

(***************************************************************************)
(* machine(): the loop over the impl's methods.                            *)
(***************************************************************************)
NoOutput == [kind |-> "none", error |-> "none", structs |-> <<>>, variants |-> <<>>,
             match_arms |-> <<>>, http_match_arms |-> <<>>, welcome |-> <<>>]

CompileError(msg) == [NoOutput EXCEPT !.kind = "compile_error", !.error = msg]

\* a variant of SignatureError: the second parameter not looked at
SignatureError_NoCapCheck(method) ==
    IF method.first # "receiver"
    THEN "the first argument to an #[activate] method must be &self"
    ELSE IF ~method.plain
    THEN "#[activate] only takes plain fn arguments"
    ELSE IF method.attr = "other"
    THEN "only 'with_serde' is a valid function argument attribute"
    ELSE "none"

\* the receiver check, the capability check and the parameter loop: the
\* compile_error the method is rejected with, or "none"
SignatureError(method) ==
    IF method.first # "receiver"
    THEN "the first argument to an #[activate] method must be &self"
    ELSE IF method.second = "ident"
    THEN "the second argument after &self to an #[activate] method must be cap"
    ELSE IF method.second = "pattern" \/ ~method.plain
    THEN "#[activate] only takes plain fn arguments"
    ELSE IF method.attr = "other"
    THEN "only 'with_serde' is a valid function argument attribute"
    ELSE "none"

\* a variant of StructFields: the fields pushed in reverse
StructFields_Reversed(method) ==
    [i \in DOMAIN method.params |-> method.params[Len(method.params) + 1 - i]]

\* struct_fields: the parameters left after the receiver and the capability
StructFields(method) == method.params

\* struct_def: the argument struct of a method
StructDef(method) ==
    [ident |-> UpperCamelCase(method.name), fields |-> StructFields(method),
     serde |-> method.http.on]

\* variant: the enum variant of a method, wrapping its struct
VariantOf(method) ==
    [ident |-> UpperCamelCase(method.name), ty |-> UpperCamelCase(method.name)]

\* a variant of ActivateCall: the fields pushed in reverse
ActivateCall_ReversedArgs(method) ==
    [method |-> method.name, ctx |-> "__ctx",
     args |-> [i \in DOMAIN StructFields(method) |->
                  StructFields(method)[Len(StructFields(method)) + 1 - i]]]

\* activate_call: machine.<method>(&__ctx, <field idents in struct order>)
ActivateCall(method) ==
    [method |-> method.name, ctx |-> "__ctx", args |-> StructFields(method)]

\* the arm pushed to match_arms: the variant's path, the struct pattern's
\* fields, and encode_output_call around activate_call as its body
MatchArm(method) ==
    [path |-> UpperCamelCase(method.name), struct |-> UpperCamelCase(method.name),
     fields |-> StructFields(method), body |-> ActivateCall(method)]

\* route_method_ident
RouteMethodIdent(method) == IF method.http.method = "Post" THEN "Post" ELSE "Get"

\* a variant of RoutePath: the derived path for every method
RoutePath_AlwaysDerived(method) == <<"/", "activate", "/", method.name>>

\* route_path: the path literal given, or "/activate/<method name>"
RoutePath(method) ==
    IF method.http.explicit THEN method.http.path
    ELSE <<"/", "activate", "/", method.name>>

\* a variant of DecodeCode: the two decoders exchanged
DecodeCode_Swapped(method) == IF method.http.method = "Post" THEN "urlencoded" ELSE "json"

\* decode_code: serde_json on the body for POST, serde_urlencoded on the query for GET
DecodeCode(method) == IF method.http.method = "Post" THEN "json" ELSE "urlencoded"

\* a variant of HandleOutputKind: the two arms of the match exchanged
HandleOutputKind_Inverted(method) == IF method.ret THEN "unit" ELSE "typed"

\* handle_output: a 204 for ReturnType::Default, else decode and re-encode as JSON
HandleOutputKind(method) == IF method.ret THEN "typed" ELSE "unit"

\* the arm pushed to http_match_arms for a method with http options
HttpArm(method) ==
    [kind |-> "route", method |-> RouteMethodIdent(method), path |-> RoutePath(method),
     decode |-> DecodeCode(method), struct |-> UpperCamelCase(method.name),
     variant |-> UpperCamelCase(method.name), output |-> HandleOutputKind(method)]

\* a variant of WelcomeArm: the page served at /index
WelcomeArm_AtIndex ==
    [kind |-> "welcome", method |-> "Get", path |-> <<"/", "index">>, decode |-> "none",
     struct |-> "none", variant |-> "none", output |-> "none"]

WelcomeArm ==
    [kind |-> "welcome", method |-> "Get", path |-> <<"/">>, decode |-> "none",
     struct |-> "none", variant |-> "none", output |-> "none"]

CatchAllArm ==
    [kind |-> "notfound", method |-> "_", path |-> <<>>, decode |-> "none",
     struct |-> "none", variant |-> "none", output |-> "none"]

\* a variant of PushHttpArm: the arm put in front
PushHttpArm_Front(arms, arm) == <<arm>> \o arms

\* http_match_arms.push(arm)
PushHttpArm(arms, arm) == Append(arms, arm)

\* a variant of FixedArms: the catch-all pushed before the welcome arm
FixedArms_CatchAllFirst(arms) == Append(Append(arms, CatchAllArm), WelcomeArm)

\* a variant of FixedArms: the welcome arm put before the methods' arms
FixedArms_WelcomeFirst(arms) == <<WelcomeArm>> \o Append(arms, CatchAllArm)

\* the two arms pushed after the loop: the welcome arm, then the catch-all
FixedArms(arms) == Append(Append(arms, WelcomeArm), CatchAllArm)

\* crate::html::Call of a routed method
HttpDoc(method) ==
    [path |-> RoutePath(method), http_method |-> method.http.method,
     params |-> StructFields(method), return_type |-> method.ret]

\* crate::html::default_welcome over the rendered call list
RECURSIVE RenderCalls(_)
RenderCalls(docs) ==
    IF docs = <<>> THEN <<>>
    ELSE <<Head(docs).http_method>> \o Head(docs).path \o RenderCalls(Tail(docs))

DefaultWelcome(docs) == <<"<html>">> \o RenderCalls(docs) \o <<"</html>">>

\* a variant of ProcessItem: an arm pushed to http_match_arms for every
\* method, with http options or without
ProcessItem_RoutesAll ==
    /\ output.kind = "none"
    /\ idx <= Len(items)
    /\ LET method == items[idx]
       IN  IF ~method.activate
           THEN /\ idx' = idx + 1
                /\ UNCHANGED <<method_structs, variants, match_arms, http_match_arms,
                               html_doc_list, output>>
           ELSE IF SignatureError(method) # "none"
           THEN /\ output' = CompileError(SignatureError(method))
                /\ idx' = idx
                /\ method_structs' = <<>>
                /\ variants' = <<>>
                /\ match_arms' = <<>>
                /\ http_match_arms' = <<>>
                /\ html_doc_list' = <<>>
           ELSE /\ method_structs' = Append(method_structs, StructDef(method))
                /\ match_arms' = Append(match_arms, MatchArm(method))
                /\ http_match_arms' = PushHttpArm(http_match_arms, HttpArm(method))
                /\ html_doc_list' =
                      IF method.http.on THEN Append(html_doc_list, HttpDoc(method))
                      ELSE html_doc_list
                /\ variants' = Append(variants, VariantOf(method))
                /\ idx' = idx + 1
                /\ UNCHANGED output
    /\ UNCHANGED <<items, params, pc, surface, act>>
    /\ UNCHANGED http_vars

\* one pass of the `for item in &mut input.items` loop
ProcessItem ==
    /\ output.kind = "none"
    /\ idx <= Len(items)
    /\ LET method == items[idx]
       IN  IF ~method.activate
           THEN /\ idx' = idx + 1
                /\ UNCHANGED <<method_structs, variants, match_arms, http_match_arms,
                               html_doc_list, output>>
           ELSE IF SignatureError(method) # "none"
           THEN \* `return compile_error!(..)`: the locals are dropped
                /\ output' = CompileError(SignatureError(method))
                /\ idx' = idx
                /\ method_structs' = <<>>
                /\ variants' = <<>>
                /\ match_arms' = <<>>
                /\ http_match_arms' = <<>>
                /\ html_doc_list' = <<>>
           ELSE /\ method_structs' = Append(method_structs, StructDef(method))
                /\ match_arms' = Append(match_arms, MatchArm(method))
                /\ http_match_arms' =
                      IF method.http.on THEN PushHttpArm(http_match_arms, HttpArm(method))
                      ELSE http_match_arms
                /\ html_doc_list' =
                      IF method.http.on THEN Append(html_doc_list, HttpDoc(method))
                      ELSE html_doc_list
                /\ variants' = Append(variants, VariantOf(method))
                /\ idx' = idx + 1
                /\ UNCHANGED output
    /\ UNCHANGED <<items, params, pc, surface, act>>
    /\ UNCHANGED http_vars

\* a variant of Finish: an impl block without #[activate] methods refused
Finish_RejectsEmpty ==
    /\ output.kind = "none"
    /\ idx = Len(items) + 1
    /\ LET arms == FixedArms(http_match_arms)
       IN  IF variants = <<>>
           THEN /\ output' = CompileError("no #[activate] method")
                /\ UNCHANGED http_match_arms
           ELSE /\ http_match_arms' = arms
                /\ output' = [kind |-> "generated", error |-> "none",
                              structs |-> method_structs, variants |-> variants,
                              match_arms |-> match_arms, http_match_arms |-> arms,
                              welcome |-> DefaultWelcome(html_doc_list)]
    /\ UNCHANGED <<items, idx, method_structs, variants, match_arms, html_doc_list,
                   params, pc, surface, act>>
    /\ UNCHANGED http_vars

\* after the loop: the match statements, the welcome arm, the catch-all arm
\* and the quoted output
Finish ==
    /\ output.kind = "none"
    /\ idx = Len(items) + 1
    /\ LET arms == FixedArms(http_match_arms)
       IN  /\ http_match_arms' = arms
           /\ output' = [kind |-> "generated", error |-> "none",
                         structs |-> method_structs, variants |-> variants,
                         match_arms |-> match_arms, http_match_arms |-> arms,
                         welcome |-> DefaultWelcome(html_doc_list)]
    /\ UNCHANGED <<items, idx, method_structs, variants, match_arms, html_doc_list,
                   params, pc, surface, act>>
    /\ UNCHANGED http_vars

(***************************************************************************)
(* Text: an integer as decimal characters, as serde_json::to_vec_pretty   *)
(* writes an i64 and as serde_json and serde_urlencoded read one.          *)
(***************************************************************************)
Digits == <<"0", "1", "2", "3", "4", "5", "6", "7", "8", "9">>

RECURSIVE NatToChars(_)
NatToChars(n) ==
    IF n < 10 THEN <<Digits[n + 1]>>
    ELSE NatToChars(n \div 10) \o <<Digits[(n % 10) + 1]>>

IntToChars(n) == IF n < 0 THEN <<"-">> \o NatToChars(-n) ELSE NatToChars(n)

DigitVal(c) == (CHOOSE i \in DOMAIN Digits : Digits[i] = c) - 1

RECURSIVE CharsToNat(_, _)
CharsToNat(cs, acc) ==
    IF cs = <<>> THEN acc ELSE CharsToNat(Tail(cs), 10 * acc + DigitVal(Head(cs)))

IsNatChars(cs) == cs # <<>> /\ \A i \in DOMAIN cs : cs[i] \in Range(Digits)
IsIntChars(cs) ==
    \/ IsNatChars(cs)
    \/ cs # <<>> /\ Head(cs) = "-" /\ IsNatChars(Tail(cs))

CharsToInt(cs) == IF Head(cs) = "-" THEN -CharsToNat(Tail(cs), 0) ELSE CharsToNat(cs, 0)

(***************************************************************************)
(* serde: a struct read from the (key, value) pairs of a JSON object or   *)
(* of a query string.  Keys that are no field are skipped, a repeated     *)
(* field, a value that is no integer and a missing field are errors.      *)
(***************************************************************************)
SerdeErr(msg) == [ok |-> FALSE, value |-> <<>>, err |-> msg]
SerdeOk(v) == [ok |-> TRUE, value |-> v, err |-> <<>>]

FirstMissing(fields, seen) ==
    LET i == CHOOSE i \in DOMAIN fields :
                 /\ fields[i] \notin seen
                 /\ \A j \in 1..(i - 1) : fields[j] \in seen
    IN  fields[i]

RECURSIVE VisitMap(_, _, _)
VisitMap(fields, pairs, acc) ==
    IF pairs = <<>>
    THEN IF Range(fields) \subseteq DOMAIN acc THEN SerdeOk(acc)
         ELSE SerdeErr(<<"missing field", FirstMissing(fields, DOMAIN acc)>>)
    ELSE LET k == Head(pairs)[1]
             v == Head(pairs)[2]
         IN  IF k \notin Range(fields) THEN VisitMap(fields, Tail(pairs), acc)
             ELSE IF k \in DOMAIN acc THEN SerdeErr(<<"duplicate field", k>>)
             ELSE IF ~IsIntChars(v) THEN SerdeErr(<<"invalid type", k>>)
             ELSE VisitMap(fields, Tail(pairs), acc @@ (k :> CharsToInt(v)))

\* serde_json::from_slice::<Struct>(body).map_err(|e| format!("{:?}", e))
JsonFromSlice(fields, body) ==
    IF body.text # "object" THEN SerdeErr(<<"Error(", "expected value", ")">>)
    ELSE LET r == VisitMap(fields, body.members, <<>>)
         IN  IF r.ok THEN r ELSE SerdeErr(<<"Error(">> \o r.err \o <<")">>)

\* serde_urlencoded::from_str::<Struct>(query).map_err(|e| e.to_string())
UrlencodedFromStr(fields, query) == VisitMap(fields, query, <<>>)

(***************************************************************************)
(* The generated code, read from machine()'s output `out`.                 *)
(***************************************************************************)
\* the first of a set of positions: a match takes the first arm that matches
FirstIndex(S) == CHOOSE i \in S : \A j \in S : i <= j

StructNamed(out, ident) ==
    out.structs[FirstIndex({i \in DOMAIN out.structs : out.structs[i].ident = ident})]

VariantIndex(out, ident) ==
    FirstIndex({i \in DOMAIN out.variants : out.variants[i].ident = ident}) - 1

\* a variant of EncodeActivation: the position of the route's arm taken for
\* the variant's index
EncodeActivation_ArmIndex(out, method) ==
    VarintEncode(FirstIndex({i \in DOMAIN out.http_match_arms :
                                out.http_match_arms[i].variant = method.variant}) - 1)
        \o EncodeFields(StructNamed(out, method.variant).fields, method.value)

\* derive(bincode::Encode) of the enum: the variant's index, then its struct
EncodeActivation(out, method) ==
    VarintEncode(VariantIndex(out, method.variant))
        \o EncodeFields(StructNamed(out, method.variant).fields, method.value)

\* derive(bincode::Decode) of the enum
DecodeActivation(out, bytes) ==
    LET tag == VarintDecode(bytes)
    IN  IF out.variants = <<>>
        THEN [ok |-> FALSE, variant |-> "none", value |-> <<>>, err |-> "EmptyEnum"]
        ELSE IF ~tag.ok
        THEN [ok |-> FALSE, variant |-> "none", value |-> <<>>, err |-> tag.err]
        ELSE IF tag.val >= Len(out.variants)
        THEN [ok |-> FALSE, variant |-> "none", value |-> <<>>, err |-> "UnexpectedVariant"]
        ELSE LET variant == out.variants[tag.val + 1]
                 fields == StructNamed(out, variant.ty).fields
                 fs == DecodeFieldSeq(Len(fields), tag.rest)
             IN  IF ~fs.ok
                 THEN [ok |-> FALSE, variant |-> "none", value |-> <<>>, err |-> fs.err]
                 ELSE [ok |-> TRUE, variant |-> variant.ident,
                       value |-> [f \in Range(fields) |->
                                     fs.vals[CHOOSE i \in DOMAIN fields : fields[i] = f]],
                       err |-> "none"]

NoAct == [ran |-> FALSE, params |-> <<>>, input |-> <<>>, aborted |-> FALSE,
          panic |-> "none", output |-> <<>>, invoked |-> <<>>, machine |-> 0]

Panicked(p, inp, msg) ==
    [NoAct EXCEPT !.ran = TRUE, !.params = p, !.input = inp, !.aborted = TRUE,
                  !.panic = msg]

\* a variant of EncodeOutputCall: the method called once more for its result
EncodeOutputCall_CalledTwice(arm, ctx, machine, value) ==
    LET args == [i \in DOMAIN arm.body.args |-> value[arm.body.args[i]]]
        first == Invoke(arm.body.method, machine, args)
        call == Invoke(arm.body.method, first.machine, args)
        entry == [method |-> arm.body.method, cap |-> ctx, args |-> args]
    IN  [output |-> EncodeOutput(call.ret), invoked |-> <<entry, entry>>,
         machine |-> call.machine]

\* a variant of EncodeOutputCall: the method called with the HTTP handler's
\* capability
EncodeOutputCall_HttpCap(arm, ctx, machine, value) ==
    LET args == [i \in DOMAIN arm.body.args |-> value[arm.body.args[i]]]
        call == Invoke(arm.body.method, machine, args)
    IN  [output |-> EncodeOutput(call.ret),
         invoked |-> <<[method |-> arm.body.method, cap |-> "HttpHandlerCap",
                        args |-> args]>>,
         machine |-> call.machine]

\* an arm of match_stmt, taken: the struct pattern binds the fields, the
\* method is called with &__ctx and the bound fields, its result is encoded
EncodeOutputCall(arm, ctx, machine, value) ==
    LET args == [i \in DOMAIN arm.body.args |-> value[arm.body.args[i]]]
        call == Invoke(arm.body.method, machine, args)
    IN  [output |-> EncodeOutput(call.ret),
         invoked |-> <<[method |-> arm.body.method, cap |-> ctx, args |-> args]>>,
         machine |-> call.machine]

\* match_stmt: the first arm whose pattern is the method's variant
MatchStmt(out, ctx, machine, method) ==
    LET taken == FirstIndex({i \in DOMAIN out.match_arms :
                                out.match_arms[i].path = method.variant})
    IN  EncodeOutputCall(out.match_arms[taken], ctx, machine, method.value)

\* a variant of Activate: an input that does not decode is answered with
\* empty output instead of a panic
Activate_InputErrorReturned(out, p, inp) ==
    LET machine == DecodeState(p)
        method == DecodeActivation(out, inp)
    IN  IF ~machine.ok
        THEN Panicked(p, inp, "#[machine] bincode decoding parameters as Counter")
        ELSE IF ~method.ok
        THEN [NoAct EXCEPT !.ran = TRUE, !.params = p, !.input = inp]
        ELSE LET r == MatchStmt(out, "ActivateCap", machine.val, method)
             IN  [ran |-> TRUE, params |-> p, input |-> inp, aborted |-> FALSE,
                  panic |-> "none", output |-> r.output, invoked |-> r.invoked,
                  machine |-> r.machine]

\* Machine::activate(__params, __input)
Activate(out, p, inp) ==
    LET ctx == "ActivateCap"
        machine == DecodeState(p)
        method == DecodeActivation(out, inp)
    IN  IF ~machine.ok
        THEN Panicked(p, inp, "#[machine] bincode decoding parameters as Counter")
        ELSE IF ~method.ok
        THEN Panicked(p, inp, "#[machine] bincode decoding input as carol_activate::Activate")
        ELSE LET r == MatchStmt(out, ctx, machine.val, method)
             IN  [ran |-> TRUE, params |-> p, input |-> inp, aborted |-> FALSE,
                  panic |-> "none", output |-> r.output, invoked |-> r.invoked,
                  machine |-> r.machine]

\* a variant of ParamsAfter: the machine written back when activate returns
ParamsAfter_Reserialized(p, run) ==
    IF run.ran /\ ~run.aborted THEN EncodeState(run.machine) ELSE p

\* activate takes the parameters by value and returns the output bytes and
\* nothing else: the parameters the host holds after a run of activate
ParamsAfter(p, run) == p

(***************************************************************************)
(* Machine::handle_http.                                                   *)
(***************************************************************************)
NoRequest == [method |-> "none", path |-> <<>>, query |-> <<>>,
              body |-> [text |-> "empty", members |-> <<>>]]
NoResponse == [kind |-> "none", status |-> 0, headers |-> <<>>, body |-> <<>>]
Response(st, b) == [kind |-> "returned", status |-> st, headers |-> <<>>, body |-> b]
\* an `expect` that failed: the call panics and returns nothing
Abort == [kind |-> "abort", status |-> 0, headers |-> <<>>, body |-> <<>>]
\* handle_http: let __ctx = carol_guest::HttpHandlerCap
HandleHttpCtx == "HttpHandlerCap"
NoReentry == [called |-> FALSE, ctx |-> "none", ok |-> FALSE, output |-> <<>>,
              err |-> "none"]

\* a variant of ArmMatches: the path alone compared
ArmMatches_PathOnly(arm, method, path) ==
    \/ arm.kind = "notfound"
    \/ arm.kind # "notfound" /\ arm.path = path

\* a variant of ArmMatches: the arm's path a prefix of the request's
ArmMatches_Prefix(arm, method, path) ==
    \/ arm.kind = "notfound"
    \/ /\ arm.kind # "notfound"
       /\ arm.method = method
       /\ Len(arm.path) <= Len(path)
       /\ SubSeq(path, 1, Len(arm.path)) = arm.path

\* whether an arm's pattern matches (request.method, path)
ArmMatches(arm, method, path) ==
    \/ arm.kind = "notfound"
    \/ arm.kind # "notfound" /\ arm.method = method /\ arm.path = path

\* json_match_stmt: the first arm that matches
JsonMatchStmt(out, method, path) ==
    LET taken == FirstIndex({i \in DOMAIN out.http_match_arms :
                                ArmMatches(out.http_match_arms[i], method, path)})
    IN  out.http_match_arms[taken]

\* decode_code of an arm, on the request's body or query
DecodeArgs(out, arm, req) ==
    LET fields == StructNamed(out, arm.struct).fields
    IN  IF arm.decode = "json" THEN JsonFromSlice(fields, req.body)
        ELSE UrlencodedFromStr(fields, req.query)

\* a variant of HandleOutput: the output decoded as an unsigned integer
HandleOutput_Unsigned(arm, bytes) ==
    IF arm.output = "unit" THEN Response(204, <<>>)
    ELSE LET decoded_output == VarintDecode(bytes)
         IN  IF ~decoded_output.ok THEN Abort
             ELSE Response(200, IntToChars(decoded_output.val))

\* a variant of BadRequest: the decode error reported as a server error
BadRequest_InternalError(e) == Response(500, e)

\* the response of an arm whose arguments did not decode
BadRequest(e) == Response(400, e)

\* a variant of SelfActivateFailed: the error left out
SelfActivateFailed_NoDetail(arm, e) ==
    <<"HTTP handler failed to self-activate via ", arm.method, ", ">> \o arm.path

\* the body of the 500 response
SelfActivateFailed(arm, e) ==
    <<"HTTP handler failed to self-activate via ", arm.method, ", ">>
        \o arm.path \o <<": ", e>>

\* a variant of HandleOutput: an output that does not decode answered 500
HandleOutput_DecodeError500(arm, bytes) ==
    IF arm.output = "unit" THEN Response(204, <<>>)
    ELSE LET decoded_output == DecodeI64(bytes)
         IN  IF ~decoded_output.ok THEN Response(500, <<"output did not decode">>)
             ELSE Response(200, IntToChars(decoded_output.val))

\* handle_output of an arm, on the bytes self_activate returned
HandleOutput(arm, bytes) ==
    IF arm.output = "unit" THEN Response(204, <<>>)
    ELSE LET decoded_output == DecodeI64(bytes)
         IN  IF ~decoded_output.ok THEN Abort
             ELSE Response(200, IntToChars(decoded_output.val))

(***************************************************************************)
(* The inputs the host may present.                                        *)
(***************************************************************************)
\* impl blocks: up to MaxItems methods of the catalog, no name twice
Impls ==
    {its \in UNION {[1..n -> Catalog] : n \in 0..MaxItems} :
        \A i, j \in DOMAIN its : i # j => its[i].name # its[j].name}

\* impl blocks with methods the macro skips or rejects
SchemaImpls ==
    {its \in UNION {[1..n -> SchemaCatalog] : n \in 0..MaxItems} :
        \A i, j \in DOMAIN its : i # j => its[i].name # its[j].name}

\* impl blocks of the methods the route requests probe
RouteImpls ==
    {its \in UNION {[1..n -> RouteCatalog] : n \in 0..MaxItems} :
        \A i, j \in DOMAIN its : i # j => its[i].name # its[j].name}

\* the machine's parameters: an encoded state, or bytes that are none
ParamBytes == {EncodeState(s) : s \in MachineStates} \cup {<<>>}

\* inputs of a direct call: a variant index and up to two encoded integers,
\* or nothing at all
ArgBytes ==
    {<<>>} \cup {EncodeI64(a) : a \in Vals}
           \cup {EncodeI64(a) \o EncodeI64(b) : a, b \in Vals}
InputBytes == {<<>>} \cup {VarintEncode(v) \o ab : v \in 0..MaxItems, ab \in ArgBytes}

Paths == {<<"/">>, <<"/", "get">>, <<"/", "set">>, <<"/", "activate", "/", "sub">>,
          <<"/", "nonexistent">>}
Queries ==
    { <<>>,
      << <<"a", IntToChars(MaxVal)>>, <<"b", IntToChars(0)>> >>,
      << <<"b", IntToChars(0)>>, <<"a", IntToChars(-1)>> >>,
      << <<"a", <<"x">>>>, <<"b", IntToChars(0)>> >> }
Bodies ==
    { [text |-> "garbage", members |-> <<>>],
      [text |-> "object", members |-> <<>>] }
    \cup { [text |-> "object", members |-> << <<"value", IntToChars(v)>> >>] : v \in Vals }
\* a GET may carry a body and a POST a query string, either of which would
\* decode as arguments
GetBodies ==
    { [text |-> "garbage", members |-> <<>>],
      [text |-> "object", members |-> << <<"value", IntToChars(MaxVal)>>,
                                         <<"a", IntToChars(0)>>,
                                         <<"b", IntToChars(MaxVal)>> >>] }
PostQueries ==
    { <<>>,
      << <<"value", IntToChars(0)>>, <<"a", IntToChars(MaxVal)>>, <<"b", IntToChars(0)>> >> }
Requests ==
    {[method |-> "Get", path |-> p, query |-> q, body |-> b] :
        p \in Paths, q \in Queries, b \in GetBodies}
    \cup {[method |-> "Post", path |-> p, query |-> q, body |-> b] :
        p \in Paths, q \in PostQueries, b \in Bodies}
    \cup {[method |-> "Put", path |-> p, query |-> <<>>,
           body |-> [text |-> "garbage", members |-> <<>>]] : p \in Paths}

\* requests that probe the route table: declared paths, the same with a
\* trailing slash or another case, the derived paths of methods, each with
\* and without a query string and a JSON body
RoutePaths == {<<"/">>, <<"/", "get">>, <<"/", "get", "/">>, <<"/", "Get">>,
               <<"/", "set">>, <<"/", "activate", "/", "sub">>,
               <<"/", "activate", "/", "get_counter">>,
               <<"/", "activate", "/", "reset">>}
RouteQueries ==
    { <<>>, << <<"a", IntToChars(MaxVal)>>, <<"b", IntToChars(0)>> >> }
RouteBodies ==
    { [text |-> "garbage", members |-> <<>>],
      [text |-> "object", members |-> << <<"value", IntToChars(MaxVal)>> >>] }
RouteRequests ==
    {[method |-> v, path |-> p, query |-> q, body |-> b] :
        v \in {"Get", "Post"}, p \in RoutePaths, q \in RouteQueries, b \in RouteBodies}

(***************************************************************************)
(* The host's calls.                                                       *)
(***************************************************************************)
\* machine() entered, the host idle
Entered ==
    /\ idx = 1
    /\ method_structs = <<>>
    /\ variants = <<>>
    /\ match_arms = <<>>
    /\ http_match_arms = <<>>
    /\ html_doc_list = <<>>
    /\ output = NoOutput
    /\ params \in ParamBytes
    /\ pc = "idle"
    /\ surface = "none"
    /\ request = NoRequest
    /\ binary_input = <<>>
    /\ reentry = NoReentry
    /\ reentries = 0
    /\ response = NoResponse
    /\ act = NoAct
    /\ written = <<>>

\* no command line is running
NoCli == [command |-> "none", binary_id |-> "none", binary |-> "none",
          package |-> "none", pc |-> "none", file |-> "none", id |-> "none",
          machine |-> "none", err |-> <<>>]

NoCommand == cli = NoCli /\ effects = <<>>

Init == items \in Impls /\ Entered /\ NoCommand

\* the host calls activate with the machine's parameters and an input
HostActivate(inp) ==
    /\ output.kind = "generated"
    /\ pc = "idle"
    /\ surface' = "activate"
    /\ act' = Activate(output, params, inp)
    /\ request' = NoRequest
    /\ binary_input' = <<>>
    /\ reentry' = NoReentry
    /\ reentries' = 0
    /\ response' = NoResponse
    /\ pc' = "done"
    /\ params' = ParamsAfter(params, act')
    /\ UNCHANGED macro_vars

\* handle_http, from its entry to its return or to its call of self_activate
HttpRequest(req) ==
    /\ output.kind = "generated"
    /\ pc = "idle"
    /\ surface' = "handle_http"
    /\ request' = req
    /\ act' = NoAct
    /\ reentry' = NoReentry
    /\ LET arm == JsonMatchStmt(output, req.method, req.path)
           method_struct == DecodeArgs(output, arm, req)
       IN  IF arm.kind = "notfound"
           THEN /\ response' = Response(404, <<>>)
                /\ pc' = "done"
                /\ binary_input' = <<>>
                /\ reentries' = 0
           ELSE IF arm.kind = "welcome"
           THEN /\ response' = Response(200, output.welcome)
                /\ pc' = "done"
                /\ binary_input' = <<>>
                /\ reentries' = 0
           ELSE IF ~method_struct.ok
           THEN /\ response' = BadRequest(method_struct.err)
                /\ pc' = "done"
                /\ binary_input' = <<>>
                /\ reentries' = 0
           ELSE /\ binary_input' =
                      EncodeActivation(output, [variant |-> arm.variant,
                                                value |-> method_struct.value])
                /\ pc' = "self_activate"
                /\ reentries' = 1
                /\ response' = NoResponse
    /\ UNCHANGED params
    /\ UNCHANGED macro_vars

\* Cap::self_activate(&__ctx, &binary_input): the host runs activate on the
\* machine's parameters and returns its output, or an error when activate
\* panicked or the host could not run it
SelfActivate ==
    /\ pc = "self_activate"
    /\ \/ /\ act' = Activate(output, params, binary_input)
          /\ params' = ParamsAfter(params, act')
          /\ reentry' = IF act'.aborted
                        THEN [called |-> TRUE, ctx |-> HandleHttpCtx, ok |-> FALSE, output |-> <<>>,
                              err |-> act'.panic]
                        ELSE [called |-> TRUE, ctx |-> HandleHttpCtx, ok |-> TRUE, output |-> act'.output,
                              err |-> "none"]
       \/ /\ act' = NoAct
          /\ reentry' = [called |-> TRUE, ctx |-> HandleHttpCtx, ok |-> FALSE, output |-> <<>>,
                         err |-> "host error"]
          /\ UNCHANGED params
    /\ pc' = "resume"
    /\ UNCHANGED <<surface, request, binary_input, reentries, response>>
    /\ UNCHANGED macro_vars

\* a variant of HttpResume: a failed self_activate tried once more
HttpResume_Retry ==
    /\ pc = "resume"
    /\ LET arm == JsonMatchStmt(output, request.method, request.path)
       IN  IF ~reentry.ok /\ reentries < 2
           THEN /\ pc' = "self_activate"
                /\ reentries' = reentries + 1
                /\ reentry' = NoReentry
                /\ response' = NoResponse
           ELSE /\ response' = IF ~reentry.ok
                               THEN Response(500, SelfActivateFailed(arm, reentry.err))
                               ELSE HandleOutput(arm, reentry.output)
                /\ pc' = "done"
                /\ UNCHANGED <<reentry, reentries>>
    /\ UNCHANGED <<params, surface, request, binary_input, act>>
    /\ UNCHANGED macro_vars

\* handle_http after self_activate returned: the 500 response, or handle_output
HttpResume ==
    /\ pc = "resume"
    /\ LET arm == JsonMatchStmt(output, request.method, request.path)
       IN  response' = IF ~reentry.ok THEN Response(500, SelfActivateFailed(arm, reentry.err))
                       ELSE HandleOutput(arm, reentry.output)
    /\ pc' = "done"
    /\ UNCHANGED <<params, surface, request, binary_input, reentry, reentries, act>>
    /\ UNCHANGED macro_vars

\* the call is over: the host has its result, the instance and all it held
\* are dropped, and the host may call again
HostReturn ==
    /\ pc = "done"
    /\ pc' = "idle"
    /\ surface' = "none"
    /\ request' = NoRequest
    /\ binary_input' = <<>>
    /\ reentry' = NoReentry
    /\ reentries' = 0
    /\ response' = NoResponse
    /\ act' = NoAct
    /\ UNCHANGED params
    /\ UNCHANGED macro_vars

Next ==
    \/ ProcessItem /\ UNCHANGED <<written, cli, effects>>
    \/ Finish /\ UNCHANGED <<written, cli, effects>>
    \/ \E inp \in InputBytes : HostActivate(inp) /\ UNCHANGED <<written, cli, effects>>
    \/ \E req \in Requests : HttpRequest(req) /\ UNCHANGED <<written, cli, effects>>
    \/ SelfActivate /\ UNCHANGED <<written, cli, effects>>
    \/ HttpResume /\ UNCHANGED <<written, cli, effects>>
    \/ HostReturn /\ UNCHANGED <<written, cli, effects>>

Spec == Init /\ [][Next]_vars

(***************************************************************************)
(* The counter example: the machine of set_counter at POST "/set" and     *)
(* get_counter at GET "/get", with the value of the last set_counter call *)
(* a request completed written down.                                       *)
(***************************************************************************)
CounterMachine == <<SetCounter, GetCounter>>

InitCounter == items = CounterMachine /\ Entered /\ NoCommand

\* the value set_counter was called with, when the request that called it
\* has been answered 204
LastWrite ==
    IF /\ response'.kind = "returned" /\ response'.status = 204
       /\ act.invoked # <<>> /\ act.invoked[1].method = "set_counter"
    THEN <<act.invoked[1].args[1]>>
    ELSE written

NextCounter ==
    \/ ProcessItem /\ UNCHANGED <<written, cli, effects>>
    \/ Finish /\ UNCHANGED <<written, cli, effects>>
    \/ \E inp \in InputBytes : HostActivate(inp) /\ UNCHANGED <<written, cli, effects>>
    \/ \E req \in Requests : HttpRequest(req) /\ UNCHANGED <<written, cli, effects>>
    \/ SelfActivate /\ UNCHANGED <<written, cli, effects>>
    \/ HttpResume /\ written' = LastWrite /\ UNCHANGED <<cli, effects>>
    \/ HostReturn /\ UNCHANGED <<written, cli, effects>>

SpecCounter == InitCounter /\ [][NextCounter]_vars

(***************************************************************************)
(* The macro on impl blocks with methods it skips or rejects.              *)
(***************************************************************************)
InitSchema == items \in SchemaImpls /\ Entered /\ NoCommand

SpecSchema == InitSchema /\ [][Next]_vars

(***************************************************************************)
(* A host whose self_activate may answer Ok with bytes that the machine's  *)
(* activate did not produce: nothing, a cut-off integer, or an integer.    *)
(***************************************************************************)
ForeignOutputs == {<<>>, <<251>>, EncodeI64(0)}

SelfActivateForeign ==
    /\ pc = "self_activate"
    /\ \E bytes \in ForeignOutputs :
          reentry' = [called |-> TRUE, ctx |-> HandleHttpCtx, ok |-> TRUE, output |-> bytes, err |-> "none"]
    /\ act' = NoAct
    /\ pc' = "resume"
    /\ UNCHANGED <<params, surface, request, binary_input, reentries, response>>
    /\ UNCHANGED macro_vars

NextForeign ==
    \/ ProcessItem /\ UNCHANGED <<written, cli, effects>>
    \/ Finish /\ UNCHANGED <<written, cli, effects>>
    \/ \E inp \in InputBytes : HostActivate(inp) /\ UNCHANGED <<written, cli, effects>>
    \/ \E req \in Requests : HttpRequest(req) /\ UNCHANGED <<written, cli, effects>>
    \/ SelfActivate /\ UNCHANGED <<written, cli, effects>>
    \/ SelfActivateForeign /\ UNCHANGED <<written, cli, effects>>
    \/ HttpResume /\ UNCHANGED <<written, cli, effects>>
    \/ HostReturn /\ UNCHANGED <<written, cli, effects>>

SpecForeign == Init /\ [][NextForeign]_vars

(***************************************************************************)
(* The route table probed: impl blocks with a method at GET "/", a method *)
(* without a route and a method at its derived path, under requests whose  *)
(* paths are and are not the declared ones.                                *)
(***************************************************************************)
InitRoutes == items \in RouteImpls /\ Entered /\ NoCommand

NextRoutes ==
    \/ ProcessItem /\ UNCHANGED <<written, cli, effects>>
    \/ Finish /\ UNCHANGED <<written, cli, effects>>
    \/ \E inp \in InputBytes : HostActivate(inp) /\ UNCHANGED <<written, cli, effects>>
    \/ \E req \in RouteRequests : HttpRequest(req) /\ UNCHANGED <<written, cli, effects>>
    \/ SelfActivate /\ UNCHANGED <<written, cli, effects>>
    \/ HttpResume /\ UNCHANGED <<written, cli, effects>>
    \/ HostReturn /\ UNCHANGED <<written, cli, effects>>

SpecRoutes == InitRoutes /\ [][NextRoutes]_vars

(***************************************************************************)
(* carlo, the command line (carlo/src/main.rs): build, upload and create.  *)
(* A stage is one fallible piece of a run function; each stage entered is  *)
(* appended to `effects` with its outcome.  A `?` on a failed stage returns *)
(* from every run function up to main, which exits with the error and the  *)
(* contexts added on the way.                                              *)
(***************************************************************************)
BinaryIds == {"binary-1", "binary-2"}
MachineIds == {"machine-1"}

\* the command lines clap accepts: --binary-id conflicts with --binary and
\* --package, --binary conflicts with --package
CommandLines ==
    {[NoCli EXCEPT !.command = "build", !.package = p, !.pc = "main"] :
        p \in {"none", "crate"}}
    \cup {[NoCli EXCEPT !.command = c, !.package = p, !.pc = "main"] :
        c \in {"upload", "create"}, p \in {"none", "crate"}}
    \cup {[NoCli EXCEPT !.command = c, !.binary = "machine.wasm", !.pc = "main"] :
        c \in {"upload", "create"}}
    \cup {[NoCli EXCEPT !.command = "create", !.binary_id = b, !.pc = "main"] :
        b \in BinaryIds}

\* the context UploadOpts::run adds to an error of the build
BuildContext(c, msgs) ==
    IF c.command = "build" THEN msgs
    ELSE <<"Failed to build crate for upload">> \o msgs

\* the context CreateOpts::run adds to an error of the upload
UploadContext(c, msgs) ==
    IF c.command = "create"
    THEN <<"Failed to upload binary for machine creation">> \o msgs
    ELSE msgs

\* main returns the error
Exit(c, msgs) == [c EXCEPT !.pc = "exit", !.err = msgs]

Effect(stage, ok) == [stage |-> stage, ok |-> ok]

\* UploadOpts::run, its first statement: the binary given, or the build
UploadEntry(c) ==
    IF c.binary # "none" THEN [c EXCEPT !.pc = "load", !.file = c.binary]
    ELSE [c EXCEPT !.pc = "metadata"]

\* CreateOpts::run, its first statement: the binary id given, or the upload
CreateEntry(c) ==
    IF c.binary_id # "none" THEN [c EXCEPT !.pc = "create", !.id = c.binary_id]
    ELSE UploadEntry(c)

\* main: match cli.command
Main ==
    /\ cli.pc = "main"
    /\ cli' = CASE cli.command = "build"  -> [cli EXCEPT !.pc = "metadata"]
                [] cli.command = "upload" -> UploadEntry(cli)
                [] cli.command = "create" -> CreateEntry(cli)
    /\ UNCHANGED effects
    /\ UNCHANGED guest_vars

\* BuildOpts::run: cargo metadata and the choice of the one package
BuildMetadata ==
    /\ cli.pc = "metadata"
    /\ \E res \in {"ok", "Couldn't build Carol WASM component",
                    "package ID specification did not match any packages",
                    "Carol WASM components must be built from a single crate"} :
          /\ effects' = Append(effects, Effect("metadata", res = "ok"))
          /\ cli' = IF res = "ok" THEN [cli EXCEPT !.pc = "rustc"]
                    ELSE Exit(cli, UploadContext(cli, BuildContext(cli, <<res>>)))
    /\ UNCHANGED guest_vars

\* BuildOpts::run: cargo rustc for wasm32-unknown-unknown and its one artifact
BuildRustc ==
    /\ cli.pc = "rustc"
    /\ \E res \in {"ok", "Couldn't spawn cargo rustc",
                    "cargo rustc exited unsuccessfully",
                    "Expected a single wasm artifact in files"} :
          /\ effects' = Append(effects, Effect("rustc", res = "ok"))
          /\ cli' = IF res = "ok" THEN [cli EXCEPT !.pc = "encode"]
                    ELSE Exit(cli, UploadContext(cli, BuildContext(cli, <<res>>)))
    /\ UNCHANGED guest_vars

\* BuildOpts::run: the module encoded as a component, written next to it
BuildEncode ==
    /\ cli.pc = "encode"
    /\ \E res \in {"ok", "Couldn't read compiled WASM file",
                    "Failed to encode a component from module",
                    "Couldn't write WASM component"} :
          /\ effects' = Append(effects, Effect("encode", res = "ok"))
          /\ cli' = IF res = "ok"
                    THEN [cli EXCEPT !.pc = "validate", !.file = "crate-component.wasm"]
                    ELSE Exit(cli, UploadContext(cli, BuildContext(cli, <<res>>)))
    /\ UNCHANGED guest_vars

\* BuildOpts::run: exec.load_binary_from_wasm_file on the component written,
\* and the return to the caller
BuildValidate ==
    /\ cli.pc = "validate"
    /\ \E ok \in BOOLEAN :
          /\ effects' = Append(effects, Effect("validate", ok))
          /\ cli' = IF ~ok
                    THEN Exit(cli, UploadContext(cli, BuildContext(cli,
                              <<"Compiled WASM component was invalid">>)))
                    ELSE IF cli.command = "build" THEN Exit(cli, <<>>)
                    ELSE [cli EXCEPT !.pc = "load"]
    /\ UNCHANGED guest_vars

\* UploadOpts::run: exec.load_binary_from_wasm_file(&binary) and binary_id()
UploadLoad ==
    /\ cli.pc = "load"
    /\ \/ /\ effects' = Append(effects, Effect("load", FALSE))
          /\ cli' = Exit(cli, UploadContext(cli, <<"Couldn't load compiled binary">>))
       \/ /\ effects' = Append(effects, Effect("load", TRUE))
          /\ \E b \in BinaryIds : cli' = [cli EXCEPT !.pc = "open", !.id = b]
    /\ UNCHANGED guest_vars

\* UploadOpts::run: std::fs::File::open(&binary)
UploadOpen ==
    /\ cli.pc = "open"
    /\ \E ok \in BOOLEAN :
          /\ effects' = Append(effects, Effect("open", ok))
          /\ cli' = IF ok THEN [cli EXCEPT !.pc = "upload"]
                    ELSE Exit(cli, UploadContext(cli, <<"Couldn't read file">>))
    /\ UNCHANGED guest_vars

\* a variant of UploadBinary: the result of the upload not looked at
UploadBinary_Unchecked ==
    /\ cli.pc = "upload"
    /\ \E ok \in BOOLEAN :
          /\ effects' = Append(effects, Effect("upload", ok))
          /\ cli' = IF cli.command = "create" THEN [cli EXCEPT !.pc = "create"]
                    ELSE Exit(cli, <<>>)
    /\ UNCHANGED guest_vars

\* UploadOpts::run: client.upload_binary(&binary_id, file); the id of the
\* response is the one returned
UploadBinary ==
    /\ cli.pc = "upload"
    /\ \/ /\ effects' = Append(effects, Effect("upload", FALSE))
          /\ cli' = Exit(cli, UploadContext(cli, <<"upload_binary failed">>))
       \/ /\ effects' = Append(effects, Effect("upload", TRUE))
          /\ \E b \in BinaryIds :
                cli' = IF cli.command = "create" THEN [cli EXCEPT !.pc = "create", !.id = b]
                       ELSE [Exit(cli, <<>>) EXCEPT !.id = b]
    /\ UNCHANGED guest_vars

\* CreateOpts::run: client.create_machine(&binary_id)
CreateMachine ==
    /\ cli.pc = "create"
    /\ \/ /\ effects' = Append(effects, Effect("create", FALSE))
          /\ cli' = Exit(cli, <<"create_machine failed">>)
       \/ /\ effects' = Append(effects, Effect("create", TRUE))
          /\ \E m \in MachineIds : cli' = [Exit(cli, <<>>) EXCEPT !.machine = m]
    /\ UNCHANGED guest_vars

InitCli ==
    /\ cli \in CommandLines
    /\ effects = <<>>
    /\ items = <<>>
    /\ params = <<>>
    /\ Entered

NextCli ==
    \/ Main
    \/ BuildMetadata
    \/ BuildRustc
    \/ BuildEncode
    \/ BuildValidate
    \/ UploadLoad
    \/ UploadOpen
    \/ UploadBinary
    \/ CreateMachine

SpecCli == InitCli /\ [][NextCli]_vars

(***************************************************************************)
(* What the impl block declares, read from `items` alone: the reference   *)
(* the properties below compare the generated code with.                   *)
(***************************************************************************)
\* the methods that carry #[activate], in declaration order
Activated(its) ==
    LET Opted(m) == m.activate
    IN  SelectSeq(its, Opted)

DeclaredPath(m) ==
    IF m.http.explicit THEN m.http.path ELSE <<"/", "activate", "/", m.name>>

Declares(m, verb, path) ==
    m.activate /\ m.http.on /\ m.http.method = verb /\ DeclaredPath(m) = path

RouteDeclared(verb, path) == \E i \in DOMAIN items : Declares(items[i], verb, path)

\* the earliest declared method with this route
FirstDeclared(verb, path) ==
    items[FirstIndex({i \in DOMAIN items : Declares(items[i], verb, path)})]

PathDeclaredWithOtherVerb(verb, path) ==
    \E i \in DOMAIN items :
        /\ items[i].activate /\ items[i].http.on
        /\ DeclaredPath(items[i]) = path
        /\ items[i].http.method # verb

IsDocRoute(verb, path) == verb = "Get" /\ path = <<"/">>

HttpDone == pc = "done" /\ surface = "handle_http"

\* bytes that decode to exactly the return value ret
DecodesTo(bytes, ret) ==
    IF ret.unit THEN bytes = <<>>
    ELSE LET d == DecodeI64(bytes)
         IN  d.ok /\ d.val = ret.val /\ d.rest = <<>>

\* the container of a method for an argument tuple
Container(m, args) ==
    [f \in Range(m.params) |-> args[CHOOSE i \in DOMAIN m.params : m.params[i] = f]]

(***************************************************************************)
(* Properties.                                                             *)
(***************************************************************************)

\* C1: for every machine state S, every operation O of the Activate enum and
\* every argument tuple, activate(encode(S), encode(Activate::O(args)))
\* returns bytes that decode to exactly the value O returns when invoked
\* directly on S with args, the arguments passed in declaration order.
C1_ActivateEqualsDirectCall ==
    (pc = "done" /\ surface = "activate") =>
        \A k \in DOMAIN Activated(items) : \A s \in MachineStates :
            LET m == Activated(items)[k]
            IN  \A args \in [1..Len(m.params) -> Vals] :
                    LET input == EncodeActivation(output,
                                     [variant |-> UpperCamelCase(m.name),
                                      value |-> Container(m, args)])
                        direct == Invoke(m.name, s, args)
                    IN  (act.params = EncodeState(s) /\ act.input = input) =>
                            /\ ~act.aborted
                            /\ DecodesTo(act.output, direct.ret)
                            /\ Len(act.invoked) = 1
                            /\ act.invoked[1].args = args

\* activate has returned from sub(a = 1, b = -1) on the state 1
C1_Witness ==
    /\ pc = "done" /\ surface = "activate"
    /\ ~act.aborted
    /\ act.params = EncodeState(1)
    /\ Len(act.invoked) = 1
    /\ act.invoked[1].method = "sub"
    /\ act.invoked[1].args = <<1, -1>>
    /\ DecodeI64(act.output).val = 3

\* C2: after a request that matched an operation route, whose arguments
\* decoded and whose self re-entry succeeded, the response is 204 with an empty
\* body when the operation declares no return type, and otherwise 200 with a
\* body that read as JSON is the value the operation returned.
C2_SuccessResponse ==
    (HttpDone /\ reentry.called /\ reentry.ok) =>
        /\ RouteDeclared(request.method, request.path)
        /\ Len(act.invoked) = 1
        /\ LET m == FirstDeclared(request.method, request.path)
               call == act.invoked[1]
               returned == Invoke(call.method, DecodeState(act.params).val, call.args).ret
           IN  IF ~m.ret
               THEN response = Response(204, <<>>)
               ELSE /\ response.kind = "returned"
                    /\ response.status = 200
                    /\ IsIntChars(response.body)
                    /\ ~returned.unit
                    /\ CharsToInt(response.body) = returned.val

\* GET /activate/sub?b=0&a=-1 on the state 0 was answered 200 with the body -1
C2_Witness ==
    /\ HttpDone /\ reentry.called /\ reentry.ok
    /\ request.path = <<"/", "activate", "/", "sub">>
    /\ response.status = 200
    /\ response.body = <<"-", "1">>

\* a POST to a declared POST route whose operation has parameters, with a
\* body that does not decode
FailedPost(req) ==
    /\ req.method = "Post"
    /\ RouteDeclared("Post", req.path)
    /\ LET m == FirstDeclared("Post", req.path)
       IN  m.params # <<>> /\ ~JsonFromSlice(m.params, req.body).ok

C3_Step ==
    /\ (pc = "idle" /\ pc' # "idle" /\ surface' = "handle_http" /\ FailedPost(request')) =>
          /\ pc' = "done"
          /\ response' = Response(400,
                 JsonFromSlice(FirstDeclared("Post", request'.path).params,
                               request'.body).err)
          /\ response'.body # <<>>
          /\ reentries' = 0
          /\ ~reentry'.called
          /\ act' = NoAct
          /\ params' = params
          /\ output' = output
    /\ (HttpDone /\ FailedPost(request) /\ pc' = "idle") =>
          /\ params' = params
          /\ output' = output
          /\ surface' = "none"
          /\ <<request', binary_input', reentry', reentries', response', act'>>
                = <<NoRequest, <<>>, NoReentry, 0, NoResponse, NoAct>>

\* C3: a POST to a declared POST route with parameters whose body fails to
\* decode is answered 400 with a non-empty body carrying the decode error; no
\* self re-entry call is made and no operation invoked, the machine's state is
\* left as it was, and once the call is over nothing of it remains: the host
\* is where it was before the request.
C3_MalformedPostIs400 == [][C3_Step]_vars

\* POST /set with a body that is no JSON was answered 400
C3_Witness ==
    /\ HttpDone
    /\ SetCounter \in Range(items)
    /\ request.method = "Post" /\ request.path = <<"/", "set">>
    /\ request.body.text = "garbage"
    /\ response.status = 400
    /\ response.body # <<>>

\* C4 (as stated): a request whose path is the path of a declared route but
\* whose verb differs from the declared verb is answered 404, never 400, and
\* invokes no operation.
C4_Original ==
    (HttpDone /\ PathDeclaredWithOtherVerb(request.method, request.path)) =>
        /\ response.status = 404
        /\ reentries = 0
        /\ act = NoAct

\* C4 (amended): a request whose path is the path of a declared route but
\* whose verb differs from the declared verb is answered 404 with an empty
\* body, never 400, and invokes no operation, unless its (verb, path) is the
\* route of another declared operation or is GET "/".
C4_VerbMismatchIs404 ==
    (/\ HttpDone
     /\ PathDeclaredWithOtherVerb(request.method, request.path)
     /\ ~RouteDeclared(request.method, request.path)
     /\ ~IsDocRoute(request.method, request.path)) =>
        /\ response = Response(404, <<>>)
        /\ reentries = 0
        /\ ~reentry.called
        /\ act = NoAct

\* GET /set with a body that would decode, set_counter declared at POST /set:
\* answered 404
C4_Witness ==
    /\ HttpDone
    /\ SetCounter \in Range(items)
    /\ request.method = "Get" /\ request.path = <<"/", "set">>
    /\ request.body.text = "object"
    /\ response.status = 404

\* C5: handle_http returns 404 with an empty body if and only if the
\* request's (verb, path) is no declared operation route and is not GET "/";
\* the catch-all arm is the last arm of the route table and no other arm.
C5_NotFoundIffNoRoute ==
    /\ HttpDone =>
          ((response.kind = "returned" /\ response.status = 404 /\ response.body = <<>>)
              <=> (/\ ~RouteDeclared(request.method, request.path)
                   /\ ~IsDocRoute(request.method, request.path)))
    /\ output.kind = "generated" =>
          LET arms == output.http_match_arms
          IN  /\ arms # <<>>
              /\ arms[Len(arms)].kind = "notfound"
              /\ \A i \in 1..(Len(arms) - 1) : arms[i].kind # "notfound"

\* PUT /get, with get_counter declared at GET /get, was answered 404
C5_Witness ==
    /\ HttpDone
    /\ GetCounter \in Range(items)
    /\ request.method = "Put" /\ request.path = <<"/", "get">>
    /\ response = Response(404, <<>>)

\* C6: when two operations are declared with the same (verb, path), every
\* request to that (verb, path) is dispatched to the one declared earlier:
\* the self re-entry input names its variant and it is the one invoked.
C6_EarlierRouteWins ==
    /\ (surface = "handle_http" /\ pc = "self_activate") =>
          /\ RouteDeclared(request.method, request.path)
          /\ DecodeActivation(output, binary_input).ok
          /\ DecodeActivation(output, binary_input).variant
                = UpperCamelCase(FirstDeclared(request.method, request.path).name)
    /\ (surface = "handle_http" /\ act.ran /\ act.invoked # <<>>) =>
          /\ RouteDeclared(request.method, request.path)
          /\ \A i \in DOMAIN act.invoked :
                act.invoked[i].method = FirstDeclared(request.method, request.path).name

\* two operations declare the request's route, and the request invoked one
C6_Witness ==
    /\ HttpDone
    /\ \E i, j \in DOMAIN items :
          /\ i < j
          /\ Declares(items[i], request.method, request.path)
          /\ Declares(items[j], request.method, request.path)
          /\ act.invoked # <<>>
          /\ act.invoked[1].method = items[i].name
    /\ response.status = 200

\* the 500 response's body names the verb, the path and the error
Names500(body, verb, path, e) ==
    /\ Len(body) = Len(path) + 5
    /\ body[2] = verb
    /\ SubSeq(body, 4, Len(path) + 3) = path
    /\ body[Len(body)] = e

C8_DecodeFailureAborts ==
    (/\ act.ran
     /\ output.kind = "generated"
     /\ \/ ~DecodeState(act.params).ok
        \/ ~DecodeActivation(output, act.input).ok) =>
        /\ act.aborted
        /\ act.panic # "none"
        /\ act.invoked = <<>>
        /\ act.output = <<>>

\* a direct call whose state decoded and whose input, not empty, did not
C8_Witness ==
    /\ pc = "done" /\ surface = "activate"
    /\ DecodeState(act.params).ok
    /\ act.input # <<>>
    /\ ~DecodeActivation(output, act.input).ok
    /\ act.aborted

\* C9: every activate call that decodes its state and its input performs
\* exactly one operation invocation, of the operation the decoded variant
\* names: never none, never two, never another one.
C9_ExactlyOneInvocation ==
    (/\ act.ran
     /\ output.kind = "generated"
     /\ DecodeState(act.params).ok
     /\ DecodeActivation(output, act.input).ok) =>
        /\ Len(act.invoked) = 1
        /\ VarintDecode(act.input).val + 1 \in DOMAIN Activated(items)
        /\ act.invoked[1].method = Activated(items)[VarintDecode(act.input).val + 1].name

\* a direct call that named the second variant invoked the second operation
C9_Witness ==
    /\ pc = "done" /\ surface = "activate"
    /\ Len(items) = 2
    /\ VarintDecode(act.input).val = 1
    /\ Len(act.invoked) = 1
    /\ act.invoked[1].method = items[2].name

C10_Step ==
    /\ params' = params
    /\ (act'.ran /\ ~act'.aborted) =>
          /\ Len(act'.invoked) = 1
          /\ act'.output =
                EncodeOutput(Invoke(act'.invoked[1].method, DecodeState(params).val,
                                    act'.invoked[1].args).ret)

CounterDone(verb, path) ==
    /\ HttpDone /\ items = CounterMachine
    /\ request.method = verb /\ request.path = path
    /\ reentry.called /\ reentry.ok

ActivatedIndex(m) ==
    FirstIndex({k \in DOMAIN Activated(items) : Activated(items)[k].name = m.name})

\* the arguments a request carries for a method, in the order the method
\* declares them: the body's for POST, the query's for GET
RequestArgs(m, req) ==
    LET r == IF m.http.method = "Post" THEN JsonFromSlice(m.params, req.body)
             ELSE UrlencodedFromStr(m.params, req.query)
    IN  [ok |-> r.ok,
         args |-> IF r.ok THEN [i \in DOMAIN m.params |-> r.value[m.params[i]]] ELSE <<>>]

RECURSIVE EncodeArgs(_)
EncodeArgs(args) ==
    IF args = <<>> THEN <<>> ELSE EncodeI64(Head(args)) \o EncodeArgs(Tail(args))

\* C12: handle_http never invokes an operation itself.  For a matched
\* operation route whose arguments decoded it makes one self re-entry call,
\* whose input is the encoding activate decodes of the Activate value of that
\* operation with those arguments (the variant's index among the activated
\* methods, then the arguments in declaration order); the operation and the
\* arguments executed for the request are the ones of that value.
C12_BridgeReentersActivate ==
    /\ (surface = "handle_http" /\ reentries = 0) => (act = NoAct /\ ~reentry.called)
    /\ (surface = "handle_http" /\ reentries > 0) =>
          /\ reentries = 1
          /\ RouteDeclared(request.method, request.path)
          /\ LET m == FirstDeclared(request.method, request.path)
                 r == RequestArgs(m, request)
             IN  /\ r.ok
                 /\ binary_input = VarintEncode(ActivatedIndex(m) - 1) \o EncodeArgs(r.args)
                 /\ pc = "self_activate" => act = NoAct
                 /\ act.ran =>
                       /\ act.input = binary_input
                       /\ act.params = params
                       /\ act = Activate(output, params, binary_input)
                       /\ ~act.aborted =>
                             /\ Len(act.invoked) = 1
                             /\ act.invoked[1].method = m.name
                             /\ act.invoked[1].args = r.args

\* GET /activate/sub?b=0&a=-1 on a machine whose first method, reset, has no
\* route: the re-entry ran sub(-1, 0), the second variant
C12_Witness ==
    /\ HttpDone
    /\ items = <<Reset, Sub>>
    /\ binary_input = <<1>> \o EncodeI64(-1) \o EncodeI64(0)
    /\ act.ran /\ ~act.aborted
    /\ act.invoked[1].method = "sub"
    /\ act.invoked[1].args = <<-1, 0>>

\* C13: the Activate enum has exactly one variant per method that carries
\* #[activate] (a method without it contributes none), in declaration order;
\* each variant wraps the method's argument struct, whose fields are the
\* method's parameters after the receiver and the capability, in declaration
\* order, and is the variant whose arm calls that method; no two methods
\* share a variant.
C13_OneVariantPerOperation ==
    output.kind = "generated" =>
        LET ops == Activated(items)
        IN  /\ Len(output.variants) = Len(ops)
            /\ Len(output.structs) = Len(ops)
            /\ Len(output.match_arms) = Len(ops)
            /\ \A k \in DOMAIN ops :
                  /\ output.variants[k].ty = output.structs[k].ident
                  /\ output.structs[k].fields = ops[k].params
                  /\ output.match_arms[k].path = output.variants[k].ident
                  /\ output.match_arms[k].struct = output.structs[k].ident
                  /\ output.match_arms[k].body.method = ops[k].name
            /\ \A j, k \in DOMAIN ops :
                  j # k => output.variants[j].ident # output.variants[k].ident

\* the enum generated for new (no #[activate]) followed by sub(a, b): one
\* variant, wrapping the struct of the fields a, b
C13_Witness ==
    /\ output.kind = "generated"
    /\ items = <<New, Sub>>
    /\ Len(output.variants) = 1
    /\ output.structs[1].fields = <<"a", "b">>
    /\ output.match_arms[1].body.method = "sub"

\* integers at the edges of bincode's one-byte and three-byte encodings
EdgeVals == {-32768, -127, -126, 125, 126, 32767}

\* C14: for every method of the Activate enum and every argument tuple,
\* decoding the encoding of the method's Activate value gives the same variant
\* with the same field values; and the input handle_http encoded for a request
\* decodes, in activate, to the variant of the request's route with the
\* arguments the request carried.
C14_RoundTrip ==
    /\ (output.kind = "generated" /\ pc = "idle") =>
          \A k \in DOMAIN Activated(items) :
              LET m == Activated(items)[k]
              IN  \A args \in [1..Len(m.params) -> Vals \cup EdgeVals] :
                      LET value == [variant |-> output.variants[k].ident,
                                    value |-> Container(m, args)]
                          bytes == EncodeActivation(output, value)
                          back == DecodeActivation(output, bytes)
                      IN  /\ back.ok
                          /\ back.variant = value.variant
                          /\ back.value = value.value
    /\ (surface = "handle_http" /\ reentries > 0) =>
          LET m == FirstDeclared(request.method, request.path)
              back == DecodeActivation(output, binary_input)
          IN  /\ back.ok
              /\ back.variant = output.variants[ActivatedIndex(m)].ident
              /\ back.value = Container(m, RequestArgs(m, request).args)

\* POST /set with the body {"value": -1} reached set_counter with -1
C14_Witness ==
    /\ HttpDone
    /\ request.method = "Post" /\ request.path = <<"/", "set">>
    /\ binary_input = <<0>> \o EncodeI64(-1)
    /\ DecodeActivation(output, binary_input).value = [value |-> -1]
    /\ act.ran /\ ~act.aborted
    /\ act.invoked[1].args = <<-1>>

\* an #[activate] method whose first parameter is no receiver, whose second
\* parameter is there and is not the capability, or whose further parameters
\* are not all plain
Malformed(m) ==
    /\ m.activate
    /\ \/ m.first # "receiver"
       \/ m.second \in {"ident", "pattern"}
       \/ ~m.plain

NothingGenerated ==
    /\ output.structs = <<>> /\ output.variants = <<>>
    /\ output.match_arms = <<>> /\ output.http_match_arms = <<>>
    /\ output.welcome = <<>>
    /\ method_structs = <<>> /\ variants = <<>> /\ match_arms = <<>>
    /\ http_match_arms = <<>> /\ html_doc_list = <<>>

C15_State ==
    /\ \A i \in 1..(idx - 1) : i \in DOMAIN items => ~Malformed(items[i])
    /\ output.kind = "generated" => \A i \in DOMAIN items : ~Malformed(items[i])
    /\ output.kind = "compile_error" =>
          /\ output.error # "none"
          /\ NothingGenerated
          /\ pc = "idle" /\ surface = "none" /\ act = NoAct /\ response = NoResponse

C15_Step ==
    (/\ output.kind = "none"
     /\ idx \in DOMAIN items
     /\ Malformed(items[idx])) =>
        /\ output'.kind = "compile_error"
        /\ output'.structs = <<>> /\ output'.variants = <<>>
        /\ output'.match_arms = <<>> /\ output'.http_match_arms = <<>>

\* C15: the macro rejects an #[activate] method whose first parameter is no
\* receiver, whose second parameter is there and is not the capability, or
\* whose further parameters are not all plain: the loop never passes such a
\* method, the step that meets it returns a compile_error, and with it
\* nothing else: no enum, no struct, no match arm, no activate or handle_http
\* to call, whatever well-formed methods came before.
C15_MalformedFailsBuild == []C15_State /\ [][C15_Step]_vars

\* set_counter, well-formed, then touch, whose second parameter is not the
\* capability: the build failed and nothing of set_counter is left
C15_Witness ==
    /\ items = <<SetCounter, Touch>>
    /\ idx = 2
    /\ output.kind = "compile_error"
    /\ NothingGenerated

\* what handle_http does with a request to the route of m whose arguments,
\* read from one part of the request, are `decoded`
DecodedFrom(m, decoded) ==
    IF ~decoded.ok
    THEN /\ response = Response(400, decoded.err)
         /\ reentries = 0
         /\ act = NoAct
    ELSE /\ reentries = 1
         /\ response.status # 400
         /\ binary_input =
               VarintEncode(ActivatedIndex(m) - 1)
                   \o EncodeArgs([i \in DOMAIN m.params |-> decoded.value[m.params[i]]])

\* C16: on a matched GET route the arguments are those of the query string,
\* read as URL-encoded form, whatever the body holds; on a matched POST route
\* those of the body, read as JSON, whatever the query string holds; when
\* they do not decode, the response is 400 with the decode error as its body.
C16_DecodeSource ==
    (HttpDone /\ RouteDeclared(request.method, request.path)) =>
        LET m == FirstDeclared(request.method, request.path)
        IN  /\ request.method = "Get" =>
                  DecodedFrom(m, UrlencodedFromStr(m.params, request.query))
            /\ request.method = "Post" =>
                  DecodedFrom(m, JsonFromSlice(m.params, request.body))

\* GET /activate/sub?a=1&b=0 with the body {"value": 1, "a": 0, "b": 1}:
\* sub was called with the query's arguments
C16_Witness ==
    /\ HttpDone
    /\ request.method = "Get"
    /\ request.path = <<"/", "activate", "/", "sub">>
    /\ request.query = << <<"a", <<"1">>>>, <<"b", <<"0">>>> >>
    /\ JsonFromSlice(<<"a", "b">>, request.body).ok
    /\ JsonFromSlice(<<"a", "b">>, request.body).value = [a |-> 0, b |-> 1]
    /\ act.ran /\ ~act.aborted
    /\ act.invoked[1].args = <<1, 0>>

\* the documentation page of an impl block: the verb and the path of each
\* routed method, in declaration order
RECURSIVE RoutesOf(_)
RoutesOf(its) ==
    IF its = <<>> THEN <<>>
    ELSE (IF Head(its).activate /\ Head(its).http.on
          THEN <<Head(its).http.method>> \o DeclaredPath(Head(its))
          ELSE <<>>) \o RoutesOf(Tail(its))

\* C17: a GET request to "/" that no operation route takes is answered 200
\* with the documentation page rendered when the macro ran, whatever its
\* query and body: no arguments are decoded, no self re-entry call is made and
\* no operation invoked.  A POST to "/" that no operation route takes is
\* answered 404.
C17_DocumentationRoute ==
    /\ (/\ HttpDone
        /\ request.method = "Get" /\ request.path = <<"/">>
        /\ ~RouteDeclared("Get", <<"/">>)) =>
          /\ response = Response(200, output.welcome)
          /\ response.body = <<"<html>">> \o RoutesOf(items) \o <<"</html>">>
          /\ reentries = 0 /\ ~reentry.called
          /\ binary_input = <<>>
          /\ act = NoAct
    /\ (/\ HttpDone
        /\ request.method = "Post" /\ request.path = <<"/">>
        /\ ~RouteDeclared("Post", <<"/">>)) =>
          /\ response = Response(404, <<>>)
          /\ reentries = 0
          /\ act = NoAct

\* GET /?a=x&b=0 with a body that is no JSON, on the machine of set_counter
\* and get_counter: answered with the page of the two routes
C17_Witness ==
    /\ HttpDone
    /\ items = <<SetCounter, GetCounter>>
    /\ request.method = "Get" /\ request.path = <<"/">>
    /\ request.query # <<>> /\ ~UrlencodedFromStr(<<"a">>, request.query).ok
    /\ request.body.text = "garbage"
    /\ response = Response(200, <<"<html>", "Post", "/", "set", "Get", "/", "get", "</html>">>)

\* C18: an impl block without any #[activate] method is accepted: the macro
\* ends in no compile error, the Activate enum it generates has no variant
\* (and no struct, no match arm), no input decodes as it, every activate call
\* panics without calling a method (at the decoding of the input, once the
\* parameters decoded), and handle_http answers GET "/" with the
\* documentation page and every other request with 404, without re-entry.
C18_ZeroOperations ==
    Activated(items) = <<>> =>
        /\ output.kind \in {"none", "generated"}
        /\ output.kind = "generated" =>
              /\ output.variants = <<>>
              /\ output.structs = <<>>
              /\ output.match_arms = <<>>
              /\ output.http_match_arms = <<WelcomeArm, CatchAllArm>>
              /\ \A inp \in InputBytes : ~DecodeActivation(output, inp).ok
        /\ (pc = "done" /\ surface = "activate") =>
              /\ act.ran /\ act.aborted
              /\ act.invoked = <<>>
              /\ act.output = <<>>
              /\ DecodeState(act.params).ok =>
                    act.panic = "#[machine] bincode decoding input as carol_activate::Activate"
        /\ HttpDone =>
              /\ response = IF IsDocRoute(request.method, request.path)
                            THEN Response(200, output.welcome)
                            ELSE Response(404, <<>>)
              /\ reentries = 0 /\ ~reentry.called
              /\ act = NoAct

\* the impl block with `new` alone, activate called on a state that decodes
\* with an input of a variant index and an argument
C18_Witness ==
    /\ items = <<New>>
    /\ output.kind = "generated"
    /\ pc = "done" /\ surface = "activate"
    /\ DecodeState(act.params).ok
    /\ act.input = VarintEncode(0) \o EncodeI64(1)
    /\ act.aborted
    /\ act.panic = "#[machine] bincode decoding input as carol_activate::Activate"

\* C19: when self_activate answered Ok for a method with a return type and
\* the bytes it returned do not decode as that type, the handle_http call
\* panics: no response is returned, neither a 400 nor a 500.
C19_UndecodableOutputAborts ==
    (/\ HttpDone
     /\ reentry.called /\ reentry.ok
     /\ RouteDeclared(request.method, request.path)
     /\ FirstDeclared(request.method, request.path).ret
     /\ ~DecodeI64(reentry.output).ok) =>
        /\ response = Abort
        /\ response.kind # "returned"
        /\ response.status \notin {400, 500}

\* GET /get of get_counter, the host answering Ok with a cut-off integer
C19_Witness ==
    /\ HttpDone
    /\ items = <<GetCounter>>
    /\ request.method = "Get" /\ request.path = <<"/", "get">>
    /\ reentry.called /\ reentry.ok
    /\ reentry.output = <<251>>
    /\ response.kind = "abort"

\* while handle_http is at its call of self_activate the route matched, the
\* arguments decoded, the call is the first and no response exists; once the
\* call returned, still no response exists until handle_http goes on
C20_State ==
    /\ reentries \in {0, 1}
    /\ pc = "self_activate" =>
          /\ surface = "handle_http"
          /\ reentries = 1
          /\ ~reentry.called
          /\ response = NoResponse
          /\ RouteDeclared(request.method, request.path)
          /\ RequestArgs(FirstDeclared(request.method, request.path), request).ok
    /\ pc = "resume" =>
          /\ surface = "handle_http"
          /\ reentries = 1
          /\ reentry.called
          /\ response = NoResponse
    /\ HttpDone =>
          /\ response # NoResponse
          /\ reentry.called <=> reentries = 1

\* the count of re-entry calls grows by one, once, when handle_http reaches
\* its call; the call completes while no response exists; the response
\* appears as handle_http ends, after the completion of the call it made
C20_Step ==
    /\ reentries' > reentries =>
          /\ reentries = 0 /\ reentries' = 1
          /\ pc = "idle" /\ pc' = "self_activate"
    /\ (~reentry.called /\ reentry'.called) =>
          /\ pc = "self_activate" /\ pc' = "resume"
          /\ response = NoResponse /\ response' = NoResponse
    /\ (response = NoResponse /\ response' # NoResponse) =>
          /\ pc' = "done"
          /\ reentries' = 1 => (reentry.called /\ reentry' = reentry)

\* C20: a handle_http call makes at most one self re-entry call, only after
\* a route matched and the arguments decoded, and produces its response only
\* after that call has completed, with success or with an error; no response
\* exists while the call is pending.
C20_OneReentryBeforeResponse == []C20_State /\ [][C20_Step]_vars

\* the re-entry call of POST /set has completed with an error and handle_http
\* has not yet answered
C20_Witness ==
    /\ pc = "resume"
    /\ request.method = "Post" /\ request.path = <<"/", "set">>
    /\ reentries = 1
    /\ reentry.called /\ ~reentry.ok
    /\ response = NoResponse

\* some routed method declares this path, under any verb
PathDeclared(path) ==
    \E i \in DOMAIN items :
        items[i].activate /\ items[i].http.on /\ DeclaredPath(items[i]) = path

\* C21: the route handle_http takes is fixed by the request's method and path
\* alone, compared for equality with the declared ones.  Whatever the query
\* string and the body, a request whose (method, path) is declared takes the
\* earliest method declared there (it re-enters with that method's variant,
\* or answers 400 when that method's arguments do not decode); a request
\* whose (method, path) is not declared takes no method: GET "/" is answered
\* with the documentation page, and every other one, a path with a trailing
\* slash or in another case among them, with 404.
C21_RouteByMethodAndPath ==
    (surface = "handle_http" /\ output.kind = "generated") =>
        /\ RouteDeclared(request.method, request.path) =>
              LET m == FirstDeclared(request.method, request.path)
              IN  \/ /\ reentries = 1
                     /\ binary_input # <<>>
                     /\ binary_input[1] = ActivatedIndex(m) - 1
                     /\ RequestArgs(m, request).ok
                  \/ /\ reentries = 0
                     /\ response.kind = "returned" /\ response.status = 400
                     /\ ~RequestArgs(m, request).ok
        /\ ~RouteDeclared(request.method, request.path) =>
              /\ reentries = 0
              /\ binary_input = <<>>
              /\ response = IF IsDocRoute(request.method, request.path)
                            THEN Response(200, output.welcome)
                            ELSE Response(404, <<>>)
        /\ (~PathDeclared(request.path) /\ request.path # <<"/">>) =>
              response = Response(404, <<>>)

\* GET /get/?a=1&b=0 on the machine of get_counter (at GET /get) and sub:
\* no route, 404
C21_Witness ==
    /\ HttpDone
    /\ items = <<GetCounter, Sub>>
    /\ request.method = "Get" /\ request.path = <<"/", "get", "/">>
    /\ request.query # <<>>
    /\ response = Response(404, <<>>)
    /\ reentries = 0

\* the activated method whose variant an input decoded to
MethodOfVariant(variant) ==
    items[CHOOSE i \in DOMAIN items :
              items[i].activate /\ UpperCamelCase(items[i].name) = variant]

\* C22: a method is invoked only by a run of activate, which calls the
\* method of the decoded variant once with ActivateCap first and then the
\* fields of the decoded container in the order the method declares them.
\* handle_http holds HttpHandlerCap, passes it to self_activate as the context
\* of the re-entry call and to nothing else: no method is ever called with it,
\* and activate makes no re-entry call.
C22_CapabilityPerSurface ==
    /\ ~act.ran => act.invoked = <<>>
    /\ (act.ran /\ act.aborted) => act.invoked = <<>>
    /\ (act.ran /\ ~act.aborted) =>
          LET method == DecodeActivation(output, act.input)
              m == MethodOfVariant(method.variant)
          IN  /\ method.ok
              /\ act.invoked =
                    <<[method |-> m.name, cap |-> "ActivateCap",
                       args |-> [i \in DOMAIN m.params |-> method.value[m.params[i]]]]>>
    /\ \A k \in DOMAIN act.invoked : act.invoked[k].cap # "HttpHandlerCap"
    /\ reentry.called => (surface = "handle_http" /\ reentry.ctx = "HttpHandlerCap")
    /\ ~reentry.called => reentry.ctx = "none"
    /\ surface = "activate" => ~reentry.called

\* GET /activate/sub?a=1&b=0: handle_http re-entered with HttpHandlerCap and
\* the activate run called sub with ActivateCap, 1 and 0
C22_Witness ==
    /\ HttpDone
    /\ reentry.called /\ reentry.ok /\ reentry.ctx = "HttpHandlerCap"
    /\ act.ran
    /\ act.invoked = <<[method |-> "sub", cap |-> "ActivateCap", args |-> <<1, 0>>]>>

\* the documentation page is the response
PageServed == response = Response(200, output.welcome)

\* C23: when a method declares GET "/", every GET "/" request is dispatched
\* to the earliest such method (its arm stands before the welcome arm): the
\* request re-enters with that method's variant, and what runs is that
\* method; and no request at all, whatever its method and path, is answered
\* with the documentation page.
C23_DeclaredRootShadowsPage ==
    (output.kind = "generated" /\ RouteDeclared("Get", <<"/">>)) =>
        /\ ~PageServed
        /\ (/\ surface = "handle_http"
            /\ request.method = "Get" /\ request.path = <<"/">>) =>
              LET m == FirstDeclared("Get", <<"/">>)
              IN  /\ RequestArgs(m, request).ok
                  /\ reentries = 1
                  /\ binary_input = VarintEncode(ActivatedIndex(m) - 1)
                  /\ (act.ran /\ ~act.aborted) =>
                        /\ act.invoked[1].method = m.name
                        /\ HttpDone => response =
                              Response(200, IntToChars(DecodeState(act.params).val))
                  /\ (HttpDone /\ ~reentry.ok) => response.status = 500

\* GET /?a=1&b=0 on the machine of set_counter and root: root ran and its
\* value is the body
C23_Witness ==
    /\ HttpDone
    /\ items = <<SetCounter, Root>>
    /\ request.method = "Get" /\ request.path = <<"/">>
    /\ request.query # <<>>
    /\ act.ran /\ ~act.aborted
    /\ act.invoked[1].method = "root"
    /\ response = Response(200, <<"1">>)

\* the activated method of this name declares an HTTP route
Routed(name) ==
    \E i \in DOMAIN items :
        items[i].name = name /\ items[i].activate /\ items[i].http.on

\* arguments for a method: 0 for the first parameter, 1 for the second
SampleArgs(m) == [i \in DOMAIN m.params |-> i - 1]

\* C24: a method activated without http options is never what a re-entry
\* call of handle_http targets, for any request: the variant handle_http
\* encodes and the method that runs under it always belong to a method with
\* a route.  Every activated method, with a route or without, is a variant
\* of the Activate enum that a direct activate call reaches.
C24_UnroutedOnlyThroughActivate ==
    output.kind = "generated" =>
        /\ (surface = "handle_http" /\ reentries = 1) =>
              /\ binary_input # <<>>
              /\ binary_input[1] + 1 \in DOMAIN Activated(items)
              /\ Activated(items)[binary_input[1] + 1].http.on
        /\ (surface = "handle_http" /\ act.ran) =>
              \A k \in DOMAIN act.invoked : Routed(act.invoked[k].method)
        /\ pc = "idle" =>
              \A k \in DOMAIN Activated(items) :
                  LET m == Activated(items)[k]
                      run == Activate(output, EncodeState(0),
                                      VarintEncode(k - 1) \o EncodeArgs(SampleArgs(m)))
                  IN  /\ ~run.aborted
                      /\ run.invoked = <<[method |-> m.name, cap |-> "ActivateCap",
                                           args |-> SampleArgs(m)]>>

\* reset has no route and sub has one: GET /activate/reset, the path reset
\* would derive, is answered 404 with nothing run
C24_Witness ==
    /\ HttpDone
    /\ items = <<Reset, Sub>>
    /\ request.method = "Get"
    /\ request.path = <<"/", "activate", "/", "reset">>
    /\ response = Response(404, <<>>)
    /\ act = NoAct

\* "/activate/<method name>"
DerivedPath(m) == <<"/", "activate", "/", m.name>>

\* the one path a routed method is to be found at
ExpectedPath(m) == IF m.http.explicit THEN m.http.path ELSE DerivedPath(m)

\* C25: a method with http options and no path literal is routed at
\* "/activate/<its name>" under its verb and nowhere else; a method with a
\* path literal is routed at that path under its verb and nowhere else, the
\* derived path included.  The table holds one arm per routed method, with
\* that verb and path, and a re-entry that targets a method comes from a
\* request with exactly its verb and path.
C25_DerivedOrExplicitPath ==
    output.kind = "generated" =>
        /\ \A i \in DOMAIN items :
              (items[i].activate /\ items[i].http.on) =>
                  LET m == items[i]
                      arms == {k \in DOMAIN output.http_match_arms :
                                  output.http_match_arms[k].variant = UpperCamelCase(m.name)}
                  IN  /\ Cardinality(arms) = 1
                      /\ \A k \in arms :
                            /\ output.http_match_arms[k].method = m.http.method
                            /\ output.http_match_arms[k].path = ExpectedPath(m)
                            /\ (m.http.explicit /\ m.http.path # DerivedPath(m)) =>
                                  output.http_match_arms[k].path # DerivedPath(m)
        /\ (surface = "handle_http" /\ reentries = 1) =>
              LET m == Activated(items)[binary_input[1] + 1]
              IN  /\ request.method = m.http.method
                  /\ request.path = ExpectedPath(m)
        /\ (/\ HttpDone
            /\ \E i \in DOMAIN items :
                  /\ items[i].activate /\ items[i].http.on /\ items[i].http.explicit
                  /\ request.path = DerivedPath(items[i])
            /\ ~RouteDeclared(request.method, request.path)) =>
              response = Response(404, <<>>)

\* GET /activate/sub?a=1&b=0 on the machine of get_counter (at "/get") and
\* sub (no path given): sub ran
C25_Witness ==
    /\ HttpDone
    /\ items = <<GetCounter, Sub>>
    /\ request.method = "Get"
    /\ request.path = <<"/", "activate", "/", "sub">>
    /\ act.ran /\ ~act.aborted
    /\ act.invoked[1].method = "sub"
    /\ response.status = 200

\* the stages of the build, of the upload, and of the machine's creation
BuildStages == <<"metadata", "rustc", "encode", "validate">>
UploadStages == <<"load", "open", "upload">>
CreateStages == <<"create">>

\* the stages a command line is to go through when none fails
Plan(c) ==
    IF c.command = "create" /\ c.binary_id # "none" THEN CreateStages
    ELSE (IF c.binary # "none" THEN <<>> ELSE BuildStages)
         \o (IF c.command = "build" THEN <<>> ELSE UploadStages)
         \o (IF c.command = "create" THEN CreateStages ELSE <<>>)

StagesDone == [i \in DOMAIN effects |-> effects[i].stage]

\* C26: create with a binary id given neither builds nor loads nor uploads;
\* create or upload with a binary file given does not build; otherwise the
\* stages run in the order build, load of the binary, upload, creation of the
\* machine, each at most once; a stage that fails is the last stage of the
\* run (no upload of a binary that did not load, no machine created after an
\* upload that failed), and a run that ends without error went through all
\* of its stages.
C26_PipelineOrder ==
    cli.command # "none" =>
        /\ (cli.command = "create" /\ cli.binary_id # "none") =>
              \A i \in DOMAIN effects : effects[i].stage = "create"
        /\ cli.binary # "none" =>
              \A i \in DOMAIN effects : effects[i].stage \notin Range(BuildStages)
        /\ Len(effects) <= Len(Plan(cli))
        /\ StagesDone = SubSeq(Plan(cli), 1, Len(effects))
        /\ \A i \in DOMAIN effects :
              ~effects[i].ok =>
                  /\ i = Len(effects)
                  /\ cli.pc = "exit"
                  /\ cli.err # <<>>
        /\ \A i \in DOMAIN effects :
              /\ effects[i].stage = "upload" =>
                    \E j \in 1..(i - 1) : effects[j].stage = "load" /\ effects[j].ok
              /\ (effects[i].stage = "create" /\ cli.binary_id = "none") =>
                    \E j \in 1..(i - 1) : effects[j].stage = "upload" /\ effects[j].ok
              /\ (effects[i].stage = "load" /\ cli.binary = "none") =>
                    \E j \in 1..(i - 1) : effects[j].stage = "validate" /\ effects[j].ok
        /\ (cli.pc = "exit" /\ cli.err = <<>>) =>
              /\ StagesDone = Plan(cli)
              /\ \A i \in DOMAIN effects : effects[i].ok
        /\ (cli.pc = "exit" /\ cli.err # <<>>) =>
              (effects # <<>> /\ ~effects[Len(effects)].ok)

\* carlo create --package crate: built, loaded, the upload failed, no machine
\* created
C26_Witness ==
    /\ cli.command = "create" /\ cli.package = "crate"
    /\ cli.pc = "exit"
    /\ StagesDone = BuildStages \o UploadStages
    /\ ~effects[Len(effects)].ok
    /\ cli.machine = "none"
    /\ cli.err = <<"Failed to upload binary for machine creation", "upload_binary failed">>
====
